---- MODULE Spec2Model ----
(***************************************************************************)
(* The agent store (agentStore): the agent detection cache, the error      *)
(* recovery actions and the agent lifecycle actions, together with the     *)
(* two collaborators they act on: the session collection of sessionStore   *)
(* and the window.maestro bridge, whose calls return promises that the     *)
(* main process settles later.                                             *)
(*                                                                         *)
(* JavaScript runs one task to completion: an action's synchronous part is *)
(* one step, and what follows an await is a step of its own, taken when    *)
(* the awaited bridge call settles.                                        *)
(***************************************************************************)
EXTENDS Naturals, Sequences, FiniteSets, TLC

VARIABLES
    sessions,         \* useSessionStore.getState().sessions
    activeSessionId,  \* useSessionStore.getState().activeSessionId
    availableAgents,  \* AgentStoreState.availableAgents
    agentsDetected,   \* AgentStoreState.agentsDetected
    pending,          \* bridge calls issued and not yet settled, in issue order
    invoked,          \* how many actions of the store have been invoked
    last              \* the step taken last: the action, its arguments, its outcome

vars == <<sessions, activeSessionId, availableAgents, agentsDetected, pending, invoked, last>>

-----------------------------------------------------------------------------
(* Bounds *)

\* action invocations in one behaviour
MaxInvoked == 2
\* bridge calls that may be unsettled at once
MaxPending == 2
\* tabs a session may hold (createTab is not offered beyond it)
MaxTabs == 2

-----------------------------------------------------------------------------
(* Optional values: undefined is None, a present value v is Some(v) *)

None == <<>>
Some(v) == <<v>>

\* JavaScript truthiness of a string | undefined: undefined and '' are falsy
Truthy(o) == o # None /\ o[1] # ""

\* a ?? b
Coalesce(a, b) == IF a # None THEN a ELSE b

-----------------------------------------------------------------------------
(* Input domains *)

SessionIds == {"s1", "s2"}
TabNames == <<"t1", "t2", "t3", "t4">>
TabIdArgs == {None, Some(""), Some("t1"), Some("t2")}
Suffixes == {None, Some(""), Some("terminal")}
SshRemoteIds == {None, Some("remote-1")}
SessionStates == {"idle", "busy", "error"}
AgentErrors == {None, Some("agent_crashed"), Some("auth_expired")}

AgentConfigOf(id, command) == [id |-> id, command |-> command]
AgentLists ==
    { <<>>,
      <<AgentConfigOf("claude-code", "claude"), AgentConfigOf("codex", "codex")>>,
      <<AgentConfigOf("codex", "codex"), AgentConfigOf("codex", "codex-beta")>> }
AgentIds == {"claude-code", "codex", "nonexistent"}

TabOptions ==
    { None, Some([saveToHistory |-> Some(TRUE), showThinking |-> Some("on")]) }

TabOf(id, err) ==
    [id |-> id, agentError |-> err, saveToHistory |-> None, showThinking |-> None]

SessionOf(id, state, err, errTabId, paused, inputMode, aiTabs) ==
    [id |-> id, state |-> state, agentError |-> err, agentErrorTabId |-> errTabId,
     agentErrorPaused |-> paused, inputMode |-> inputMode, aiTabs |-> aiTabs]

\* a session in every lifecycle state with every kind of error: a crash is
\* reported on tab t1 and pauses the session, an expired login on tab t2
SessionShapes(id) ==
    { SessionOf(id, state, err,
                IF err = None THEN None
                ELSE IF err = Some("agent_crashed") THEN Some("t1") ELSE Some("t2"),
                err = Some("agent_crashed"),
                "ai",
                IF err = None THEN <<TabOf("t1", None)>>
                ELSE IF err = Some("agent_crashed") THEN <<TabOf("t1", err)>>
                ELSE <<TabOf("t1", Some("network_error")), TabOf("t2", err)>>) :
        state \in SessionStates, err \in AgentErrors }

\* sessions whose fields do not agree with each other: a tab reference left
\* without a session error, an error on a tab the session does not refer to
OddShapes(id) ==
    { SessionOf(id, "error", None, Some("t1"), FALSE, "ai",
                <<TabOf("t1", Some("network_error"))>>),
      SessionOf(id, "busy", Some("auth_expired"), None, TRUE, "terminal",
                <<TabOf("t1", None), TabOf("t2", Some("auth_expired"))>>) }

\* the second session of a two-session collection: one healthy, one failed
OtherShapes(id) ==
    { SessionOf(id, "busy", None, None, FALSE, "ai", <<TabOf("t1", None)>>),
      SessionOf(id, "error", Some("auth_expired"), Some("t1"), TRUE, "ai",
                <<TabOf("t1", Some("auth_expired"))>>) }

-----------------------------------------------------------------------------
(* Helpers of the store *)

\* getSession with a predicate that no longer compares the id
getSessionAnyId(sessionId) ==
    IF Len(sessions) > 0 THEN Some(sessions[1]) ELSE None

\* getSession: sessions.find((s) => s.id === sessionId), undefined when absent
getSession(sessionId) ==
    IF \E i \in 1..Len(sessions) : sessions[i].id = sessionId
    THEN LET first == CHOOSE i \in 1..Len(sessions) :
                          /\ sessions[i].id = sessionId
                          /\ \A j \in 1..(i - 1) : sessions[j].id # sessionId
         IN  Some(sessions[first])
    ELSE None

\* updateSession: setSessions((prev) => prev.map((s) => s.id === sessionId ? updater(s) : s))
\* updated[i] is updater(prev[i]), what the updater makes of the i-th session
updateSession(prev, sessionId, updated) ==
    [i \in 1..Len(prev) |-> IF prev[i].id = sessionId THEN updated[i] ELSE prev[i]]

\* the updater of clearAgentError without the reset of agentErrorPaused
ClearedSessionKeepsPaused(s, tabId) ==
    LET targetTabId == Coalesce(tabId, s.agentErrorTabId)
        updatedAiTabs ==
            IF Truthy(targetTabId)
            THEN [i \in 1..Len(s.aiTabs) |->
                     IF s.aiTabs[i].id = targetTabId[1]
                     THEN [s.aiTabs[i] EXCEPT !.agentError = None]
                     ELSE s.aiTabs[i]]
            ELSE s.aiTabs
    IN  [s EXCEPT !.agentError = None,
                  !.agentErrorTabId = None,
                  !.state = "idle",
                  !.aiTabs = updatedAiTabs]

\* the updater of clearAgentError filtering the target tab out instead of
\* clearing its error
ClearedSessionDropsTab(s, tabId) ==
    LET targetTabId == Coalesce(tabId, s.agentErrorTabId)
        Kept(tab) == tab.id # targetTabId[1]
        updatedAiTabs ==
            IF Truthy(targetTabId) THEN SelectSeq(s.aiTabs, Kept) ELSE s.aiTabs
    IN  [s EXCEPT !.agentError = None,
                  !.agentErrorTabId = None,
                  !.agentErrorPaused = FALSE,
                  !.state = "idle",
                  !.aiTabs = updatedAiTabs]

\* the updater of clearAgentError always targeting s.agentErrorTabId
ClearedSessionIgnoresTabId(s, tabId) ==
    LET targetTabId == s.agentErrorTabId
        updatedAiTabs ==
            IF Truthy(targetTabId)
            THEN [i \in 1..Len(s.aiTabs) |->
                     IF s.aiTabs[i].id = targetTabId[1]
                     THEN [s.aiTabs[i] EXCEPT !.agentError = None]
                     ELSE s.aiTabs[i]]
            ELSE s.aiTabs
    IN  [s EXCEPT !.agentError = None,
                  !.agentErrorTabId = None,
                  !.agentErrorPaused = FALSE,
                  !.state = "idle",
                  !.aiTabs = updatedAiTabs]

\* the updater of clearAgentError falling back, when there is no target tab id,
\* to the first tab that still carries an error
ClearedSessionFallsBackToFirstErrorTab(s, tabId) ==
    LET targetTabId == Coalesce(tabId, s.agentErrorTabId)
        errored == { i \in 1..Len(s.aiTabs) : s.aiTabs[i].agentError # None }
        updatedAiTabs ==
            IF Truthy(targetTabId)
            THEN [i \in 1..Len(s.aiTabs) |->
                     IF s.aiTabs[i].id = targetTabId[1]
                     THEN [s.aiTabs[i] EXCEPT !.agentError = None]
                     ELSE s.aiTabs[i]]
            ELSE [i \in 1..Len(s.aiTabs) |->
                     IF i \in errored /\ \A j \in errored : i <= j
                     THEN [s.aiTabs[i] EXCEPT !.agentError = None]
                     ELSE s.aiTabs[i]]
    IN  [s EXCEPT !.agentError = None,
                  !.agentErrorTabId = None,
                  !.agentErrorPaused = FALSE,
                  !.state = "idle",
                  !.aiTabs = updatedAiTabs]

\* the updater of clearAgentError
ClearedSession(s, tabId) ==
    LET targetTabId == Coalesce(tabId, s.agentErrorTabId)
        updatedAiTabs ==
            IF Truthy(targetTabId)
            THEN [i \in 1..Len(s.aiTabs) |->
                     IF s.aiTabs[i].id = targetTabId[1]
                     THEN [s.aiTabs[i] EXCEPT !.agentError = None]
                     ELSE s.aiTabs[i]]
            ELSE s.aiTabs
    IN  [s EXCEPT !.agentError = None,
                  !.agentErrorTabId = None,
                  !.agentErrorPaused = FALSE,
                  !.state = "idle",
                  !.aiTabs = updatedAiTabs]

\* clearAgentError mapping the updater over every session, whatever its id
ClearAgentErrorEverySession(prev, sessionId, tabId) ==
    [i \in 1..Len(prev) |-> ClearedSession(prev[i], tabId)]

\* the session collection after clearAgentError(sessionId, tabId)
ClearAgentErrorSessions(prev, sessionId, tabId) ==
    updateSession(prev, sessionId, [i \in 1..Len(prev) |-> ClearedSession(prev[i], tabId)])

\* createTab(s, {saveToHistory, showThinking}) of utils/tabHelpers: null, or the
\* session with one fresh tab appended that carries the options. Whether it
\* yields a tab is the helper's decision (yields).
createTab(s, options, yields) ==
    LET newTab == [id |-> TabNames[Len(s.aiTabs) + 1], agentError |-> None,
                   saveToHistory |-> options.saveToHistory,
                   showThinking |-> options.showThinking]
    IN  IF yields /\ Len(s.aiTabs) < MaxTabs
        THEN Some([session |-> [s EXCEPT !.aiTabs = Append(s.aiTabs, newTab)]])
        ELSE None

\* the updater of startNewSessionAfterError calling createTab without the options
WithNewTabNoOptions(s, options, yields) ==
    LET result == createTab(s, [saveToHistory |-> None, showThinking |-> None], yields)
    IN  IF result = None THEN s ELSE result[1].session

\* the updater of startNewSessionAfterError
WithNewTab(s, options, yields) ==
    LET result == createTab(s,
                            [saveToHistory |-> IF options = None THEN None
                                               ELSE options[1].saveToHistory,
                             showThinking |-> IF options = None THEN None
                                              ELSE options[1].showThinking],
                            yields)
    IN  IF result = None THEN s ELSE result[1].session

\* killAgent ignoring its suffix
KillTargetAlwaysAi(sessionId, suffix) == sessionId \o "-ai"

\* the process name killAgent targets
KillTarget(sessionId, suffix) ==
    IF Truthy(suffix) THEN sessionId \o "-" \o suffix[1] ELSE sessionId \o "-ai"

\* restartAgentAfterError killing the bare session id, without the "-ai" suffix
RestartTargetBare(sessionId) == sessionId

\* the process name restartAgentAfterError targets
RestartTarget(sessionId) == sessionId \o "-ai"

-----------------------------------------------------------------------------
(* The bridge (window.maestro): a call returns a promise, settled later *)

\* the invocation a step belongs to: the least number no unsettled call carries
NewInv ==
    CHOOSE n \in 1..(MaxPending + 1) :
        /\ \A i \in 1..Len(pending) : pending[i].inv # n
        /\ \A m \in 1..(n - 1) : \E i \in 1..Len(pending) : pending[i].inv = m

BridgeCall(fn, arg, op, inv) == [fn |-> fn, arg |-> arg, op |-> op, inv |-> inv]

Without(seq, i) == SubSeq(seq, 1, i - 1) \o SubSeq(seq, i + 1, Len(seq))

Step(op, phase, args, outcome, inv, result) ==
    [op |-> op, phase |-> phase, args |-> args, outcome |-> outcome,
     inv |-> inv, result |-> result]

\* an awaited kill or interrupt call without the try/catch around it
AfterUncaughtCall(ok) == IF ok THEN "fulfilled" ELSE "rejected"

\* what an async action's promise does once the awaited kill or interrupt call
\* has settled: the try/catch swallows a rejection
AfterSwallowedCall(ok) == "fulfilled"

\* what refreshAgents' promise does once detect has settled: no try/catch
AfterDetect(ok) == IF ok THEN "fulfilled" ELSE "rejected"

\* clearError with no .catch attached: a rejection is left unhandled
AfterClearErrorUncaught(ok) == IF ok THEN "ignored" ELSE "rejected"

\* what the .catch on clearError does once the call has settled
AfterClearError(ok) == IF ok THEN "ignored" ELSE "logged"

\* a lookup returning the last entry with the id instead of the first
FindLastAgent(agents, agentId) ==
    IF \E i \in 1..Len(agents) : agents[i].id = agentId
    THEN LET final == CHOOSE i \in 1..Len(agents) :
                          /\ agents[i].id = agentId
                          /\ \A j \in (i + 1)..Len(agents) : agents[j].id # agentId
         IN  Some(agents[final])
    ELSE None

\* availableAgents.find((a) => a.id === agentId)
FindAgent(agents, agentId) ==
    IF \E i \in 1..Len(agents) : agents[i].id = agentId
    THEN LET first == CHOOSE i \in 1..Len(agents) :
                          /\ agents[i].id = agentId
                          /\ \A j \in 1..(i - 1) : agents[j].id # agentId
         IN  Some(agents[first])
    ELSE None

-----------------------------------------------------------------------------
(* Initial state *)

InitialCollections ==
    { <<s>> : s \in SessionShapes("s1") \cup OddShapes("s1") }
    \cup { <<s, t>> : s \in { x \in SessionShapes("s1") : x.state = "error" },
                      t \in OtherShapes("s2") }

Init ==
    /\ sessions \in InitialCollections
    /\ activeSessionId = IF Len(sessions) = 1 THEN "" ELSE sessions[1].id
    /\ availableAgents = <<>>
    /\ agentsDetected = FALSE
    /\ pending = <<>>
    /\ invoked = 0
    /\ last = Step("create", "call", None, "returned", 0, None)

-----------------------------------------------------------------------------
(* Agent detection cache *)

refreshAgents(sshRemoteId) ==
    /\ Len(pending) < MaxPending
    /\ pending' = Append(pending, BridgeCall("detect", sshRemoteId, "refreshAgents", NewInv))
    /\ last' = Step("refreshAgents", "call", [sshRemoteId |-> sshRemoteId],
                    "pending", NewInv, None)
    /\ UNCHANGED <<sessions, activeSessionId, availableAgents, agentsDetected>>

\* detect resolved, and only the list is set: set({ availableAgents: agents })
refreshAgentsResolvedNoFlag(i, agents) ==
    /\ pending[i].fn = "detect"
    /\ availableAgents' = agents
    /\ pending' = Without(pending, i)
    /\ last' = Step("refreshAgents", "settle", [call |-> pending[i], ok |-> TRUE],
                    "fulfilled", pending[i].inv, Some(agents))
    /\ UNCHANGED <<invoked, sessions, activeSessionId, agentsDetected>>

\* detect resolved, and the result is applied only when no refreshAgents invoked
\* later is still in flight; otherwise it is dropped
refreshAgentsResolvedLatestOnly(i, agents) ==
    /\ pending[i].fn = "detect"
    /\ IF \E j \in (i + 1)..Len(pending) : pending[j].fn = "detect"
       THEN UNCHANGED <<availableAgents, agentsDetected>>
       ELSE availableAgents' = agents /\ agentsDetected' = TRUE
    /\ pending' = Without(pending, i)
    /\ last' = Step("refreshAgents", "settle", [call |-> pending[i], ok |-> TRUE],
                    AfterDetect(TRUE), pending[i].inv, Some(agents))
    /\ UNCHANGED <<invoked, sessions, activeSessionId>>

\* detect resolved with agents: set({ availableAgents: agents, agentsDetected: true })
refreshAgentsResolved(i, agents) ==
    /\ pending[i].fn = "detect"
    /\ availableAgents' = agents
    /\ agentsDetected' = TRUE
    /\ pending' = Without(pending, i)
    /\ last' = Step("refreshAgents", "settle", [call |-> pending[i], ok |-> TRUE],
                    AfterDetect(TRUE), pending[i].inv, Some(agents))
    /\ UNCHANGED <<invoked, sessions, activeSessionId>>

\* detect rejected, and the store falls back to its initial detection state
refreshAgentsRejectedResets(i) ==
    /\ pending[i].fn = "detect"
    /\ pending' = Without(pending, i)
    /\ availableAgents' = <<>>
    /\ agentsDetected' = FALSE
    /\ last' = Step("refreshAgents", "settle", [call |-> pending[i], ok |-> FALSE],
                    AfterDetect(FALSE), pending[i].inv, None)
    /\ UNCHANGED <<invoked, sessions, activeSessionId>>

\* detect rejected, and the store records a finished detection with the cache kept
refreshAgentsRejectedMarksDetected(i) ==
    /\ pending[i].fn = "detect"
    /\ pending' = Without(pending, i)
    /\ agentsDetected' = TRUE
    /\ last' = Step("refreshAgents", "settle", [call |-> pending[i], ok |-> FALSE],
                    AfterDetect(FALSE), pending[i].inv, None)
    /\ UNCHANGED <<invoked, sessions, activeSessionId, availableAgents>>

\* detect rejected: the await throws and nothing is set
refreshAgentsRejected(i) ==
    /\ pending[i].fn = "detect"
    /\ pending' = Without(pending, i)
    /\ last' = Step("refreshAgents", "settle", [call |-> pending[i], ok |-> FALSE],
                    AfterDetect(FALSE), pending[i].inv, None)
    /\ UNCHANGED <<invoked, sessions, activeSessionId, availableAgents, agentsDetected>>

getAgentConfig(agentId) ==
    /\ last' = Step("getAgentConfig", "call", [agentId |-> agentId],
                    "returned", NewInv, FindAgent(availableAgents, agentId))
    /\ UNCHANGED <<sessions, activeSessionId, availableAgents, agentsDetected, pending>>

-----------------------------------------------------------------------------
(* Error recovery *)

clearAgentError(sessionId, tabId) ==
    /\ Len(pending) < MaxPending
    /\ sessions' = ClearAgentErrorSessions(sessions, sessionId, tabId)
    /\ pending' = Append(pending,
                         BridgeCall("clearError", Some(sessionId), "clearAgentError", NewInv))
    /\ last' = Step("clearAgentError", "call", [sessionId |-> sessionId, tabId |-> tabId],
                    "returned", NewInv, None)
    /\ UNCHANGED <<activeSessionId, availableAgents, agentsDetected>>

\* the promise of a clearError call settles; only its .catch is attached
clearErrorSettled(i, ok) ==
    /\ pending[i].fn = "clearError"
    /\ pending' = Without(pending, i)
    /\ last' = Step("clearAgentError", "settle", [call |-> pending[i], ok |-> ok],
                    AfterClearError(ok), pending[i].inv, None)
    /\ UNCHANGED <<invoked, sessions, activeSessionId, availableAgents, agentsDetected>>

startNewSessionAfterError(sessionId, options, yields) ==
    LET args == [sessionId |-> sessionId, options |-> options, yields |-> yields]
        cleared == ClearAgentErrorSessions(sessions, sessionId, None)
    IN
    IF getSession(sessionId) = None
    THEN /\ last' = Step("startNewSessionAfterError", "call", args, "returned", NewInv, None)
         /\ UNCHANGED <<sessions, activeSessionId, availableAgents, agentsDetected, pending>>
    ELSE /\ Len(pending) < MaxPending
         /\ sessions' = updateSession(cleared, sessionId,
                [i \in 1..Len(cleared) |-> WithNewTab(cleared[i], options, yields)])
         /\ pending' = Append(pending,
                              BridgeCall("clearError", Some(sessionId), "clearAgentError", NewInv))
         /\ last' = Step("startNewSessionAfterError", "call", args, "returned", NewInv, None)
         /\ UNCHANGED <<activeSessionId, availableAgents, agentsDetected>>

\* retryAfterError clearing the session-level error only, whatever the tabs hold
retryAfterErrorSessionOnly(sessionId) ==
    /\ Len(pending) < MaxPending
    /\ sessions' = ClearAgentErrorSessions(sessions, sessionId, Some(""))
    /\ pending' = Append(pending,
                         BridgeCall("clearError", Some(sessionId), "clearAgentError", NewInv))
    /\ last' = Step("retryAfterError", "call", [sessionId |-> sessionId],
                    "returned", NewInv, None)
    /\ UNCHANGED <<activeSessionId, availableAgents, agentsDetected>>

retryAfterError(sessionId) ==
    /\ Len(pending) < MaxPending
    /\ sessions' = ClearAgentErrorSessions(sessions, sessionId, None)
    /\ pending' = Append(pending,
                         BridgeCall("clearError", Some(sessionId), "clearAgentError", NewInv))
    /\ last' = Step("retryAfterError", "call", [sessionId |-> sessionId],
                    "returned", NewInv, None)
    /\ UNCHANGED <<activeSessionId, availableAgents, agentsDetected>>

restartAgentAfterError(sessionId) ==
    LET args == [sessionId |-> sessionId]
    IN
    IF getSession(sessionId) = None
    THEN /\ last' = Step("restartAgentAfterError", "call", args, "fulfilled", NewInv, None)
         /\ UNCHANGED <<sessions, activeSessionId, availableAgents, agentsDetected, pending>>
    ELSE /\ Len(pending) + 2 <= MaxPending
         /\ sessions' = ClearAgentErrorSessions(sessions, sessionId, None)
         /\ pending' = pending \o
                <<BridgeCall("clearError", Some(sessionId), "clearAgentError", NewInv),
                  BridgeCall("kill", Some(RestartTarget(sessionId)),
                             "restartAgentAfterError", NewInv)>>
         /\ last' = Step("restartAgentAfterError", "call", args, "pending", NewInv, None)
         /\ UNCHANGED <<activeSessionId, availableAgents, agentsDetected>>

\* authenticateAfterError without the early return for a session not found
authenticateAfterErrorUnguarded(sessionId) ==
    LET cleared == ClearAgentErrorSessions(sessions, sessionId, None)
    IN  /\ Len(pending) < MaxPending
        /\ sessions' = updateSession(cleared, sessionId,
                [i \in 1..Len(cleared) |-> [cleared[i] EXCEPT !.inputMode = "terminal"]])
        /\ activeSessionId' = sessionId
        /\ pending' = Append(pending,
                             BridgeCall("clearError", Some(sessionId), "clearAgentError", NewInv))
        /\ last' = Step("authenticateAfterError", "call", [sessionId |-> sessionId],
                        "returned", NewInv, None)
        /\ UNCHANGED <<availableAgents, agentsDetected>>

\* authenticateAfterError without setActiveSessionId(sessionId)
authenticateAfterErrorKeepsActive(sessionId) ==
    LET args == [sessionId |-> sessionId]
        cleared == ClearAgentErrorSessions(sessions, sessionId, None)
    IN
    IF getSession(sessionId) = None
    THEN /\ last' = Step("authenticateAfterError", "call", args, "returned", NewInv, None)
         /\ UNCHANGED <<sessions, activeSessionId, availableAgents, agentsDetected, pending>>
    ELSE /\ Len(pending) < MaxPending
         /\ sessions' = updateSession(cleared, sessionId,
                [i \in 1..Len(cleared) |-> [cleared[i] EXCEPT !.inputMode = "terminal"]])
         /\ pending' = Append(pending,
                              BridgeCall("clearError", Some(sessionId), "clearAgentError", NewInv))
         /\ last' = Step("authenticateAfterError", "call", args, "returned", NewInv, None)
         /\ UNCHANGED <<activeSessionId, availableAgents, agentsDetected>>

authenticateAfterError(sessionId) ==
    LET args == [sessionId |-> sessionId]
        cleared == ClearAgentErrorSessions(sessions, sessionId, None)
    IN
    IF getSession(sessionId) = None
    THEN /\ last' = Step("authenticateAfterError", "call", args, "returned", NewInv, None)
         /\ UNCHANGED <<sessions, activeSessionId, availableAgents, agentsDetected, pending>>
    ELSE /\ Len(pending) < MaxPending
         /\ sessions' = updateSession(cleared, sessionId,
                [i \in 1..Len(cleared) |-> [cleared[i] EXCEPT !.inputMode = "terminal"]])
         /\ activeSessionId' = sessionId
         /\ pending' = Append(pending,
                              BridgeCall("clearError", Some(sessionId), "clearAgentError", NewInv))
         /\ last' = Step("authenticateAfterError", "call", args, "returned", NewInv, None)
         /\ UNCHANGED <<availableAgents, agentsDetected>>

-----------------------------------------------------------------------------
(* Agent lifecycle *)

\* killAgent also marking the session idle once the kill call is issued
killAgentMarksIdle(sessionId, suffix) ==
    /\ Len(pending) < MaxPending
    /\ sessions' = updateSession(sessions, sessionId,
            [i \in 1..Len(sessions) |-> [sessions[i] EXCEPT !.state = "idle"]])
    /\ pending' = Append(pending,
                         BridgeCall("kill", Some(KillTarget(sessionId, suffix)), "killAgent", NewInv))
    /\ last' = Step("killAgent", "call", [sessionId |-> sessionId, suffix |-> suffix],
                    "pending", NewInv, None)
    /\ UNCHANGED <<activeSessionId, availableAgents, agentsDetected>>

killAgent(sessionId, suffix) ==
    /\ Len(pending) < MaxPending
    /\ pending' = Append(pending,
                         BridgeCall("kill", Some(KillTarget(sessionId, suffix)), "killAgent", NewInv))
    /\ last' = Step("killAgent", "call", [sessionId |-> sessionId, suffix |-> suffix],
                    "pending", NewInv, None)
    /\ UNCHANGED <<sessions, activeSessionId, availableAgents, agentsDetected>>

\* interruptAgent without the await: the promise completes with the call in flight
interruptAgentNotAwaited(sessionId) ==
    /\ Len(pending) < MaxPending
    /\ pending' = Append(pending,
                         BridgeCall("interrupt", Some(sessionId), "interruptAgent", NewInv))
    /\ last' = Step("interruptAgent", "call", [sessionId |-> sessionId],
                    "fulfilled", NewInv, None)
    /\ UNCHANGED <<sessions, activeSessionId, availableAgents, agentsDetected>>

interruptAgent(sessionId) ==
    /\ Len(pending) < MaxPending
    /\ pending' = Append(pending,
                         BridgeCall("interrupt", Some(sessionId), "interruptAgent", NewInv))
    /\ last' = Step("interruptAgent", "call", [sessionId |-> sessionId],
                    "pending", NewInv, None)
    /\ UNCHANGED <<sessions, activeSessionId, availableAgents, agentsDetected>>

\* an awaited kill or interrupt call settles, resolved (ok) or rejected: the
\* action that awaits it (killAgent, restartAgentAfterError, interruptAgent) resumes
awaitedCallSettled(i, ok) ==
    /\ pending[i].fn \in {"kill", "interrupt"}
    /\ pending' = Without(pending, i)
    /\ last' = Step(pending[i].op, "settle", [call |-> pending[i], ok |-> ok],
                    AfterSwallowedCall(ok), pending[i].inv, None)
    /\ UNCHANGED <<invoked, sessions, activeSessionId, availableAgents, agentsDetected>>

-----------------------------------------------------------------------------

\* an action of the store is invoked
Invoke ==
    /\ invoked < MaxInvoked
    /\ invoked' = invoked + 1

Next ==
    \/ \E sshRemoteId \in SshRemoteIds : Invoke /\ refreshAgents(sshRemoteId)
    \/ \E i \in 1..Len(pending), agents \in AgentLists : refreshAgentsResolved(i, agents)
    \/ \E i \in 1..Len(pending) : refreshAgentsRejected(i)
    \/ \E agentId \in AgentIds : Invoke /\ getAgentConfig(agentId)
    \/ \E sessionId \in SessionIds, tabId \in TabIdArgs : Invoke /\ clearAgentError(sessionId, tabId)
    \/ \E i \in 1..Len(pending), ok \in BOOLEAN : clearErrorSettled(i, ok)
    \/ \E sessionId \in SessionIds, options \in TabOptions, yields \in BOOLEAN :
            Invoke /\ startNewSessionAfterError(sessionId, options, yields)
    \/ \E sessionId \in SessionIds : Invoke /\ retryAfterError(sessionId)
    \/ \E sessionId \in SessionIds : Invoke /\ restartAgentAfterError(sessionId)
    \/ \E sessionId \in SessionIds : Invoke /\ authenticateAfterError(sessionId)
    \/ \E sessionId \in SessionIds, suffix \in Suffixes : Invoke /\ killAgent(sessionId, suffix)
    \/ \E sessionId \in SessionIds : Invoke /\ interruptAgent(sessionId)
    \/ \E i \in 1..Len(pending), ok \in BOOLEAN : awaitedCallSettled(i, ok)

Spec == Init /\ [][Next]_vars

-----------------------------------------------------------------------------
(* Vocabulary of the properties *)

\* the actions that take a session id
SessionActions ==
    {"clearAgentError", "retryAfterError", "startNewSessionAfterError",
     "restartAgentAfterError", "authenticateAfterError", "killAgent", "interruptAgent"}

\* the actions that return early when getSession finds nothing
GuardedActions ==
    {"startNewSessionAfterError", "restartAgentAfterError", "authenticateAfterError"}

\* the bridge function an unguarded action calls
BridgeFnOf(op) ==
    IF op = "killAgent" THEN "kill"
    ELSE IF op = "interruptAgent" THEN "interrupt"
    ELSE "clearError"

\* the step just taken is the synchronous part of op
Called(op) == last.phase = "call" /\ last.op = op

Present(ss, sessionId) == \E i \in 1..Len(ss) : ss[i].id = sessionId

\* the unsettled bridge calls of invocation inv
CallsOf(inv) == { i \in 1..Len(pending) : pending[i].inv = inv }

IdsOf(ss) == [i \in 1..Len(ss) |-> ss[i].id]
TabIdsOf(s) == [k \in 1..Len(s.aiTabs) |-> s.aiTabs[k].id]

IsPrefix(a, b) == Len(a) <= Len(b) /\ SubSeq(b, 1, Len(a)) = a

-----------------------------------------------------------------------------
\* C1: after clearAgentError(sessionId), every session of the collection with that
\* id has state idle, no agentError, no agentErrorTabId and agentErrorPaused false,
\* whatever its state and error were before.
C1_ClearResetsSession ==
    Called("clearAgentError") =>
        \A i \in 1..Len(sessions) :
            sessions[i].id = last.args.sessionId =>
                /\ sessions[i].state = "idle"
                /\ sessions[i].agentError = None
                /\ sessions[i].agentErrorTabId = None
                /\ sessions[i].agentErrorPaused = FALSE

\* a clear has acted on a session that is part of the collection and that still
\* shows, on a tab the clear did not target, the error it was in
C1_Witness ==
    /\ Called("clearAgentError")
    /\ \E i \in 1..Len(sessions) :
          /\ sessions[i].id = last.args.sessionId
          /\ sessions[i].state = "idle"
          /\ \E k \in 1..Len(sessions[i].aiTabs) : sessions[i].aiTabs[k].agentError # None

\* C2: clearAgentError(sessionId) leaves every session with another id exactly as
\* it was and keeps the number and the order of the sessions.
C2_ClearFrame ==
    [][ (last'.phase = "call" /\ last'.op = "clearAgentError") =>
            /\ IdsOf(sessions') = IdsOf(sessions)
            /\ \A i \in 1..Len(sessions) :
                  sessions[i].id # last'.args.sessionId => sessions'[i] = sessions[i] ]_vars

\* a clear on s1 has acted while the other session is still in its error
C2_Witness ==
    /\ Called("clearAgentError")
    /\ last.args.sessionId = "s1"
    /\ Len(sessions) = 2
    /\ sessions[1].state = "idle"
    /\ sessions[2].state = "error"
    /\ sessions[2].agentError # None

\* C3 as stated: every action that takes a session id, invoked with an id that is
\* not in the collection, mutates nothing and issues no bridge call.
C3_AbsentIdIsNoOp ==
    [][ ( /\ last'.phase = "call"
          /\ last'.op \in SessionActions
          /\ ~Present(sessions, last'.args.sessionId) ) =>
            /\ sessions' = sessions
            /\ pending' = pending ]_vars

\* C3 as amended: with an id that is not in the collection no action mutates the
\* collection; startNewSessionAfterError, restartAgentAfterError and
\* authenticateAfterError issue no bridge call, while clearAgentError and
\* retryAfterError still issue one clearError call, killAgent one kill call and
\* interruptAgent one interrupt call.
C3_AbsentIdNeverMutates ==
    [][ ( /\ last'.phase = "call"
          /\ last'.op \in SessionActions
          /\ ~Present(sessions, last'.args.sessionId) ) =>
            /\ sessions' = sessions
            /\ IF last'.op \in GuardedActions
               THEN pending' = pending
               ELSE /\ Len(pending') = Len(pending) + 1
                    /\ SubSeq(pending', 1, Len(pending)) = pending
                    /\ pending'[Len(pending')].fn = BridgeFnOf(last'.op) ]_vars

\* clearAgentError was invoked with an id that no session has, and its
\* clearError call for that id is in flight
C3_Witness ==
    /\ Called("clearAgentError")
    /\ ~Present(sessions, last.args.sessionId)
    /\ \E i \in CallsOf(last.inv) :
          pending[i].fn = "clearError" /\ pending[i].arg = Some(last.args.sessionId)

\* C4: startNewSessionAfterError, restartAgentAfterError and authenticateAfterError,
\* invoked with an id that is not in the collection, issue no clearError and no kill
\* call and change no session and not the active session id.
C4_GuardedNoOp ==
    [][ ( /\ last'.phase = "call"
          /\ last'.op \in GuardedActions
          /\ ~Present(sessions, last'.args.sessionId) ) =>
            /\ UNCHANGED <<sessions, activeSessionId, pending>>
            /\ last'.outcome \in {"returned", "fulfilled"} ]_vars

\* restartAgentAfterError has returned for an id that no session has, with a
\* failed session beside it untouched and nothing in flight
C4_Witness ==
    /\ Called("restartAgentAfterError")
    /\ ~Present(sessions, last.args.sessionId)
    /\ pending = <<>>
    /\ sessions[1].state = "error"

\* C5: a rejected kill or interrupt call never propagates: the promise of
\* killAgent, interruptAgent and restartAgentAfterError is fulfilled whether the
\* call resolved or rejected, and the session restartAgentAfterError was invoked
\* on is idle with no error also when its kill call was rejected.
C5_KillFailureSwallowed ==
    /\ ( /\ last.phase = "settle"
         /\ last.op \in {"killAgent", "interruptAgent", "restartAgentAfterError"} ) =>
            last.outcome = "fulfilled"
    /\ last.op = "restartAgentAfterError" =>
            \A i \in 1..Len(sessions) :
                ( \/ last.phase = "call" /\ sessions[i].id = last.args.sessionId
                  \/ last.phase = "settle"
                        /\ last.args.call.arg = Some(sessions[i].id \o "-ai") ) =>
                    sessions[i].state = "idle" /\ sessions[i].agentError = None

\* the kill call of restartAgentAfterError on s1 was rejected and the action has
\* completed all the same
C5_Witness ==
    /\ last.phase = "settle"
    /\ last.op = "restartAgentAfterError"
    /\ last.args.ok = FALSE
    /\ last.args.call.arg = Some("s1-ai")
    /\ last.outcome = "fulfilled"
    /\ sessions[1].state = "idle"

\* C6: no failure of a bridge call (detect, clearError, kill, interrupt) is ever
\* surfaced to the caller of the action that issued it.
C6_NoFailureSurfaces ==
    (last.phase = "settle" /\ last.args.ok = FALSE) => last.outcome # "rejected"

\* C7 as stated: once an action has returned or its promise has completed, no
\* bridge call it issued is still unsettled, and no action has two of its bridge
\* calls unsettled at once.
C7_AwaitsEveryCall ==
    /\ last.outcome \in {"returned", "fulfilled", "rejected"} => CallsOf(last.inv) = {}
    /\ \A i, j \in 1..Len(pending) : pending[i].inv = pending[j].inv => i = j

\* C7 as amended: an action awaits its detect, kill or interrupt call: once it has
\* returned or its promise has completed none of those is unsettled, and it never
\* has two of them unsettled at once. The clearError call of clearAgentError (and
\* of the actions that delegate to it) is not awaited: at most one per action, it
\* may outlive the action and be unsettled together with the kill call of
\* restartAgentAfterError.
C7_AwaitsAllButClearError ==
    /\ last.outcome \in {"returned", "fulfilled", "rejected"} =>
            \A i \in CallsOf(last.inv) : pending[i].fn = "clearError"
    /\ \A i, j \in 1..Len(pending) :
            (pending[i].inv = pending[j].inv /\ i # j) =>
                /\ pending[i].fn # pending[j].fn
                /\ "clearError" \in {pending[i].fn, pending[j].fn}
    /\ last.outcome = "pending" =>
            \E i \in CallsOf(last.inv) : pending[i].fn # "clearError"

\* the promise of restartAgentAfterError has completed while the clearError call
\* it issued is still unsettled
C7_Witness ==
    /\ last.phase = "settle"
    /\ last.op = "restartAgentAfterError"
    /\ last.outcome = "fulfilled"
    /\ \E i \in CallsOf(last.inv) : pending[i].fn = "clearError"

\* C8 as stated: killAgent issues exactly one kill call, to "<sessionId>-ai" when
\* no suffix is given and to "<sessionId>-<suffix>" for every suffix given.
C8_KillTargetForEverySuffix ==
    Called("killAgent") =>
        /\ Cardinality(CallsOf(last.inv)) = 1
        /\ \A i \in CallsOf(last.inv) :
              /\ pending[i].fn = "kill"
              /\ pending[i].arg =
                    Some(IF last.args.suffix = None
                         THEN last.args.sessionId \o "-ai"
                         ELSE last.args.sessionId \o "-" \o last.args.suffix[1])

\* C8 as amended: killAgent issues exactly one kill call, to "<sessionId>-ai" when
\* no suffix or the empty suffix is given and to "<sessionId>-<suffix>" otherwise.
C8_KillTarget ==
    Called("killAgent") =>
        /\ Cardinality(CallsOf(last.inv)) = 1
        /\ \A i \in CallsOf(last.inv) :
              /\ pending[i].fn = "kill"
              /\ pending[i].arg =
                    Some(IF last.args.suffix \in {None, Some("")}
                         THEN last.args.sessionId \o "-ai"
                         ELSE last.args.sessionId \o "-" \o last.args.suffix[1])

\* killAgent("s1", "terminal") has issued its call to "s1-terminal"
C8_Witness ==
    /\ Called("killAgent")
    /\ last.args.suffix = Some("terminal")
    /\ \E i \in CallsOf(last.inv) : pending[i].arg = Some("s1-terminal")

\* C9 as stated: no step creates or destroys a session or a tab: the session ids
\* and every session's tab ids stay what they were.
C9_NoSessionOrTabCreated ==
    [][ /\ IdsOf(sessions') = IdsOf(sessions)
        /\ \A i \in 1..Len(sessions) : TabIdsOf(sessions'[i]) = TabIdsOf(sessions[i]) ]_vars

\* C9 as amended: no step creates or destroys a session and no step removes or
\* reorders a tab; only startNewSessionAfterError may append one tab, to the
\* session with the given id; and a session changes only in a step of an action
\* invoked with its id.
C9_OnlyNewTabAppended ==
    [][ sessions' # sessions =>
        /\ IdsOf(sessions') = IdsOf(sessions)
        /\ \A i \in 1..Len(sessions) :
              /\ IsPrefix(TabIdsOf(sessions[i]), TabIdsOf(sessions'[i]))
              /\ Len(sessions'[i].aiTabs) <= Len(sessions[i].aiTabs) + 1
              /\ Len(sessions'[i].aiTabs) > Len(sessions[i].aiTabs) =>
                    last'.op = "startNewSessionAfterError"
              /\ sessions'[i] # sessions[i] =>
                    /\ last'.phase = "call"
                    /\ last'.op \in SessionActions
                    /\ last'.args.sessionId = sessions[i].id ]_vars

\* startNewSessionAfterError has appended a tab carrying the options to a session
C9_Witness ==
    /\ Called("startNewSessionAfterError")
    /\ \E i \in 1..Len(sessions) :
          /\ sessions[i].id = last.args.sessionId
          /\ Len(sessions[i].aiTabs) = 2
          /\ sessions[i].aiTabs[2].saveToHistory = Some(TRUE)

\* C10: refreshAgents(sshRemoteId) issues exactly one detect call, with that
\* sshRemoteId (absent when none was given), and when that call resolves and the
\* action completes, availableAgents is the list the call returned and
\* agentsDetected is true.
C10_RefreshCachesDetectResult ==
    [][ (last'.op = "refreshAgents") =>
            IF last'.phase = "call"
            THEN /\ pending' = Append(pending, pending'[Len(pending')])
                 /\ pending'[Len(pending')].fn = "detect"
                 /\ pending'[Len(pending')].arg = last'.args.sshRemoteId
                 /\ CallsOf(last'.inv) = {}
                 /\ last'.outcome = "pending"
            ELSE /\ Len(pending') = Len(pending) - 1
                 /\ last'.args.call.fn = "detect"
                 /\ last'.args.ok =>
                        /\ last'.outcome = "fulfilled"
                        /\ availableAgents' = last'.result[1]
                        /\ agentsDetected' = TRUE ]_vars

\* refreshAgents("remote-1") has completed and cached the two agents detected
C10_Witness ==
    /\ last.op = "refreshAgents"
    /\ last.phase = "settle"
    /\ last.outcome = "fulfilled"
    /\ last.args.call.arg = Some("remote-1")
    /\ Len(availableAgents) = 2
    /\ agentsDetected

\* C11: restartAgentAfterError(sessionId) on a session of the collection clears
\* its error (state idle, no agentError) and issues exactly one kill call, to
\* "<sessionId>-ai"; the session is already cleared, and the clearError call
\* already issued, when the kill call goes out; and the action's promise stays
\* pending until that kill call has settled.
C11_RestartClearsThenKills ==
    last.op = "restartAgentAfterError" =>
        IF last.phase = "call"
        THEN IF Present(sessions, last.args.sessionId)
             THEN /\ last.outcome = "pending"
                  /\ \A i \in 1..Len(sessions) :
                        sessions[i].id = last.args.sessionId =>
                            sessions[i].state = "idle" /\ sessions[i].agentError = None
                  /\ Cardinality({ i \in CallsOf(last.inv) : pending[i].fn = "kill" }) = 1
                  /\ \A i \in CallsOf(last.inv) :
                        pending[i].fn = "kill" =>
                            /\ pending[i].arg = Some(last.args.sessionId \o "-ai")
                            /\ \E j \in CallsOf(last.inv) :
                                  j < i /\ pending[j].fn = "clearError"
             ELSE CallsOf(last.inv) = {}
        ELSE /\ last.args.call.fn = "kill"
             /\ \A i \in CallsOf(last.inv) : pending[i].fn # "kill"

\* restartAgentAfterError("s1") has cleared s1 and waits for its kill of "s1-ai"
C11_Witness ==
    /\ Called("restartAgentAfterError")
    /\ last.args.sessionId = "s1"
    /\ last.outcome = "pending"
    /\ sessions[1].state = "idle"
    /\ \E i \in CallsOf(last.inv) : pending[i].arg = Some("s1-ai") /\ pending[i].fn = "kill"

\* C12: authenticateAfterError(sessionId) on a session of the collection leaves it
\* idle, with no agentError and with inputMode terminal, and makes sessionId the
\* active session id whatever was active before; the inputMode of every other
\* session is unchanged.
C12_AuthenticateSwitchesToTerminal ==
    [][ ( /\ last'.phase = "call"
          /\ last'.op = "authenticateAfterError"
          /\ Present(sessions, last'.args.sessionId) ) =>
            /\ activeSessionId' = last'.args.sessionId
            /\ Len(sessions') = Len(sessions)
            /\ \A i \in 1..Len(sessions) :
                  IF sessions[i].id = last'.args.sessionId
                  THEN /\ sessions'[i].state = "idle"
                       /\ sessions'[i].agentError = None
                       /\ sessions'[i].inputMode = "terminal"
                  ELSE sessions'[i].inputMode = sessions[i].inputMode ]_vars

\* authenticateAfterError("s2") has acted while s1 was the active session: s2 is
\* active and in terminal mode, s1 still in ai mode
C12_Witness ==
    /\ Called("authenticateAfterError")
    /\ last.args.sessionId = "s2"
    /\ invoked = 1
    /\ Len(sessions) = 2
    /\ activeSessionId = "s2"
    /\ sessions[2].inputMode = "terminal"
    /\ sessions[2].state = "idle"
    /\ sessions[1].inputMode = "ai"

\* C13: startNewSessionAfterError(sessionId, options) on a session of the
\* collection leaves it idle with no agentError; when createTab yields a tab the
\* session has one more tab, after all the tabs it had, and the new tab carries
\* the saveToHistory and showThinking given; when createTab yields nothing the
\* session is left cleared with the tabs it had.
C13_StartNewSessionAddsTab ==
    [][ ( /\ last'.phase = "call"
          /\ last'.op = "startNewSessionAfterError"
          /\ Present(sessions, last'.args.sessionId) ) =>
            \A i \in 1..Len(sessions) :
                sessions[i].id = last'.args.sessionId =>
                    LET before == sessions[i].aiTabs
                        after == sessions'[i].aiTabs
                        options == last'.args.options
                    IN  /\ sessions'[i].state = "idle"
                        /\ sessions'[i].agentError = None
                        /\ IsPrefix(TabIdsOf(sessions[i]), TabIdsOf(sessions'[i]))
                        /\ IF last'.args.yields /\ Len(before) < MaxTabs
                           THEN /\ Len(after) = Len(before) + 1
                                /\ after[Len(after)].saveToHistory =
                                      (IF options = None THEN None
                                       ELSE options[1].saveToHistory)
                                /\ after[Len(after)].showThinking =
                                      (IF options = None THEN None
                                       ELSE options[1].showThinking)
                                /\ \A k \in 1..Len(before) :
                                      after[k].id # after[Len(after)].id
                           ELSE Len(after) = Len(before) ]_vars

\* startNewSessionAfterError("s1", {saveToHistory: true, showThinking: 'on'}) has
\* cleared s1 and given it a second tab with those options
C13_Witness ==
    /\ Called("startNewSessionAfterError")
    /\ last.args.sessionId = "s1"
    /\ last.args.options # None
    /\ sessions[1].state = "idle"
    /\ sessions[1].agentError = None
    /\ Len(sessions[1].aiTabs) = 2
    /\ sessions[1].aiTabs[2].saveToHistory = Some(TRUE)
    /\ sessions[1].aiTabs[2].showThinking = Some("on")

\* C14: clearAgentError(sessionId) on a session of the collection issues exactly
\* one bridge call, clearError(sessionId), and in the state where that call is in
\* flight the session is already cleared; when the call settles, failed or not,
\* nothing is thrown to the caller (the outcome is never a rejection) and the
\* session collection is left as it was.
C14_ClearErrorFireAndForget ==
    [][ last'.op = "clearAgentError" =>
            IF last'.phase = "call"
            THEN Present(sessions, last'.args.sessionId) =>
                    /\ last'.outcome = "returned"
                    /\ Len(pending') = Len(pending) + 1
                    /\ SubSeq(pending', 1, Len(pending)) = pending
                    /\ pending'[Len(pending')].fn = "clearError"
                    /\ pending'[Len(pending')].arg = Some(last'.args.sessionId)
                    /\ \A i \in 1..Len(sessions') :
                          sessions'[i].id = last'.args.sessionId =>
                              /\ sessions'[i].state = "idle"
                              /\ sessions'[i].agentError = None
                              /\ sessions'[i].agentErrorTabId = None
                              /\ ~sessions'[i].agentErrorPaused
            ELSE /\ last'.args.call.fn = "clearError"
                 /\ last'.outcome # "rejected"
                 /\ last'.outcome = (IF last'.args.ok THEN "ignored" ELSE "logged")
                 /\ sessions' = sessions
                 /\ Len(pending') = Len(pending) - 1 ]_vars

\* the clearError call of a clearAgentError("s1") has failed: the failure was
\* logged and s1 is still cleared
C14_Witness ==
    /\ last.op = "clearAgentError"
    /\ last.phase = "settle"
    /\ last.args.call.op = "clearAgentError"
    /\ last.args.call.arg = Some("s1")
    /\ ~last.args.ok
    /\ last.outcome = "logged"
    /\ invoked = 1
    /\ sessions[1].state = "idle"
    /\ sessions[1].agentError = None

\* C15: clearAgentError(sessionId, tabId) removes the error of the tab whose id
\* is tabId when a tabId is given, otherwise of the tab named by the session's
\* agentErrorTabId before the call; every other tab of the session keeps its
\* error, and with neither a tabId nor an agentErrorTabId no tab changes.
C15_ClearsOnlyTargetTab ==
    [][ ( /\ last'.phase = "call"
          /\ last'.op = "clearAgentError" ) =>
            \A i \in 1..Len(sessions) :
                sessions[i].id = last'.args.sessionId =>
                    LET target == IF last'.args.tabId # None
                                  THEN last'.args.tabId
                                  ELSE sessions[i].agentErrorTabId
                    IN  /\ Len(sessions'[i].aiTabs) = Len(sessions[i].aiTabs)
                        /\ \A k \in 1..Len(sessions[i].aiTabs) :
                              sessions'[i].aiTabs[k] =
                                  IF target # None /\ sessions[i].aiTabs[k].id = target[1]
                                  THEN [sessions[i].aiTabs[k] EXCEPT !.agentError = None]
                                  ELSE sessions[i].aiTabs[k] ]_vars

\* clearAgentError("s1", "t1") on a session whose agentErrorTabId was t2: the
\* error of t1 is gone and t2, not the target, keeps its error
C15_Witness ==
    /\ Called("clearAgentError")
    /\ last.args.sessionId = "s1"
    /\ last.args.tabId = Some("t1")
    /\ invoked = 1
    /\ Len(sessions[1].aiTabs) = 2
    /\ sessions[1].aiTabs[1].agentError = None
    /\ sessions[1].aiTabs[2].agentError # None
    /\ sessions[1].agentErrorTabId = None

\* C16: retryAfterError(sessionId) does what clearAgentError(sessionId) with no
\* tab id does from the same state: the session collection after it is the one
\* clearAgentError produces, and the external calls after it are the ones before
\* it followed by the single clearError(sessionId) call clearAgentError issues.
C16_RetryIsClear ==
    [][ last'.op = "retryAfterError" =>
            /\ last'.phase = "call"
            /\ last'.outcome = "returned"
            /\ sessions' = ClearAgentErrorSessions(sessions, last'.args.sessionId, None)
            /\ pending' = Append(pending,
                                 BridgeCall("clearError", Some(last'.args.sessionId),
                                            "clearAgentError", last'.inv))
            /\ UNCHANGED <<activeSessionId, availableAgents, agentsDetected>> ]_vars

\* retryAfterError("s1") has acted on a session whose agentErrorTabId named t2:
\* session and t2 are cleared and one clearError("s1") call is in flight
C16_Witness ==
    /\ Called("retryAfterError")
    /\ last.args.sessionId = "s1"
    /\ invoked = 1
    /\ sessions[1].state = "idle"
    /\ Len(sessions[1].aiTabs) = 2
    /\ sessions[1].aiTabs[1].agentError # None
    /\ sessions[1].aiTabs[2].agentError = None
    /\ Len(pending) = 1
    /\ pending[1].fn = "clearError"
    /\ pending[1].arg = Some("s1")

\* C17: getAgentConfig(agentId) returns the first entry of the cached
\* availableAgents whose id is agentId, and undefined when no cached entry has
\* that id (so always undefined while nothing is cached); it issues no external
\* call and changes no state.
C17_GetAgentConfigIsFirstMatch ==
    [][ last'.op = "getAgentConfig" =>
            /\ UNCHANGED <<sessions, activeSessionId, availableAgents, agentsDetected, pending>>
            /\ last'.outcome = "returned"
            /\ IF \E k \in 1..Len(availableAgents) : availableAgents[k].id = last'.args.agentId
               THEN \E k \in 1..Len(availableAgents) :
                       /\ last'.result = Some(availableAgents[k])
                       /\ availableAgents[k].id = last'.args.agentId
                       /\ \A j \in 1..Len(availableAgents) :
                             availableAgents[j].id = last'.args.agentId => k <= j
               ELSE last'.result = None ]_vars

\* getAgentConfig("codex") on a cache holding two entries with id codex has
\* returned the first of them, which differs from the second
C17_Witness ==
    /\ Called("getAgentConfig")
    /\ last.args.agentId = "codex"
    /\ Len(availableAgents) = 2
    /\ availableAgents[1].id = "codex"
    /\ availableAgents[2].id = "codex"
    /\ availableAgents[1] # availableAgents[2]
    /\ last.result = Some(availableAgents[1])

\* C19: in every reachable state availableAgents is empty whenever
\* agentsDetected is false, and no step of the store takes agentsDetected from
\* true back to false.
C19_DetectedIsMonotone ==
    /\ [](~agentsDetected => availableAgents = <<>>)
    /\ [][agentsDetected => agentsDetected']_vars

\* a detection has completed and cached a list, and a store action that came
\* after it has acted: agentsDetected is still true
C19_Witness ==
    /\ agentsDetected
    /\ availableAgents # <<>>
    /\ invoked = 2
    /\ Called("retryAfterError")
    /\ \E i \in 1..Len(sessions) : sessions[i].id = last.args.sessionId

\* C20: when the detect call of refreshAgents fails, availableAgents and
\* agentsDetected keep the values they had before the failure: a cached list is
\* not cleared and agentsDetected is not set by the failed call.
C20_FailedDetectKeepsCache ==
    [][ ( /\ last'.op = "refreshAgents"
          /\ last'.phase = "settle"
          /\ ~last'.args.ok ) =>
            UNCHANGED <<availableAgents, agentsDetected>> ]_vars

\* a second refreshAgents has failed after a first one cached two agents: the
\* two agents are still cached
C20_Witness ==
    /\ last.op = "refreshAgents"
    /\ last.phase = "settle"
    /\ ~last.args.ok
    /\ agentsDetected
    /\ Len(availableAgents) = 2
    /\ invoked = 2

-----------------------------------------------------------------------------
(* Platform utilities: getRevealLabel, checked on its own over platform strings *)

\* platform strings: the values of process.platform, case variants, the empty
\* string, and strings that only contain or extend 'win32' / 'linux'
PlatformStems ==
    {"", "win32", "linux", "darwin", "win", "lin", "Win32", "Linux", "LINUX",
     "WIN32", "freebsd", "openbsd", "sunos", "aix", "android", "cygwin"}
PlatformTails == {"", " ", "2", "32", "ux", "-x64", "linux", "win32"}
Platforms == { stem \o tail : stem \in PlatformStems, tail \in PlatformTails }

\* getRevealLabel answering 'Reveal in File Manager' for every platform it does
\* not know
getRevealLabelDefaultLinux(platform) ==
    IF platform = "win32" THEN "Reveal in Explorer"
    ELSE IF platform = "darwin" THEN "Reveal in Finder"
    ELSE "Reveal in File Manager"

getRevealLabel(platform) ==
    IF platform = "win32" THEN "Reveal in Explorer"
    ELSE IF platform = "linux" THEN "Reveal in File Manager"
    ELSE "Reveal in Finder"

InitLabel ==
    /\ sessions = <<>>
    /\ activeSessionId = ""
    /\ availableAgents = <<>>
    /\ agentsDetected = FALSE
    /\ pending = <<>>
    /\ invoked = 0
    /\ last = Step("create", "call", None, "returned", 0, None)

callGetRevealLabel(platform) ==
    /\ last' = Step("getRevealLabel", "call", [platform |-> platform], "returned", 0,
                    Some(getRevealLabel(platform)))
    /\ UNCHANGED <<sessions, activeSessionId, availableAgents, agentsDetected,
                   pending, invoked>>

NextLabel == \E platform \in Platforms : callGetRevealLabel(platform)

SpecLabel == InitLabel /\ [][NextLabel]_vars

\* C18: getRevealLabel returns a label for every platform string: 'Reveal in
\* Explorer' exactly when the platform is 'win32', 'Reveal in File Manager'
\* exactly when it is 'linux', and 'Reveal in Finder' for 'darwin' and every
\* other string.
C18_RevealLabelByPlatform ==
    last.op = "getRevealLabel" =>
        /\ last.result # None
        /\ last.result[1] \in {"Reveal in Explorer", "Reveal in File Manager",
                               "Reveal in Finder"}
        /\ (last.result[1] = "Reveal in Explorer") <=> (last.args.platform = "win32")
        /\ (last.result[1] = "Reveal in File Manager") <=> (last.args.platform = "linux")
        /\ (last.result[1] = "Reveal in Finder") <=>
               (last.args.platform \notin {"win32", "linux"})
        /\ last.args.platform = "darwin" => last.result[1] = "Reveal in Finder"

\* getRevealLabel has been applied to a string that differs from 'linux' only in
\* case and has answered the Finder label
C18_Witness ==
    /\ Called("getRevealLabel")
    /\ last.args.platform = "Linux"
    /\ last.result = Some("Reveal in Finder")

\* C21: with several refreshAgents calls in flight, each detect call that
\* delivers a result replaces availableAgents with that whole result at the
\* moment it settles, whether calls invoked before or after it are still in
\* flight, and no other step touches availableAgents (a detect call that fails
\* delivers no result and leaves it, C20): so once all have settled
\* availableAgents is the result of the call that settled last with a result,
\* not of the call invoked last, and at every moment it is empty or the complete
\* result of one detect call.
C21_LastSettledDetectWins ==
    /\ [](availableAgents \in AgentLists)
    /\ [][ IF last'.op = "refreshAgents" /\ last'.phase = "settle" /\ last'.args.ok
           THEN /\ last'.result # None
                /\ availableAgents' = last'.result[1]
           ELSE availableAgents' = availableAgents ]_vars

\* two refreshAgents calls were in flight at once and the one invoked later has
\* settled first: availableAgents is its complete result while the call invoked
\* first is still in flight
C21_Witness ==
    /\ last.op = "refreshAgents"
    /\ last.phase = "settle"
    /\ last.args.ok
    /\ last.args.call.inv = 2
    /\ invoked = 2
    /\ Len(pending) = 1
    /\ pending[1].fn = "detect"
    /\ pending[1].inv = 1
    /\ Len(availableAgents) = 2
    /\ last.result = Some(availableAgents)

\* C22: clearAgentError applied a second time in a row with the same arguments
\* leaves the session collection exactly as the first application left it; the
\* second application only issues one more clearError call.
C22_ClearIsIdempotent ==
    [][ ( /\ last.op = "clearAgentError" /\ last.phase = "call"
          /\ last'.op = "clearAgentError" /\ last'.phase = "call"
          /\ last'.args = last.args ) =>
            /\ sessions' = sessions
            /\ Len(pending') = Len(pending) + 1
            /\ pending'[Len(pending')].fn = "clearError" ]_vars

\* clearAgentError("s1") has been applied twice to a session that had two tabs
\* with errors: the session is cleared, the tab agentErrorTabId named is cleared,
\* the other tab keeps its error, and two clearError calls are in flight
C22_Witness ==
    /\ Called("clearAgentError")
    /\ last.args = [sessionId |-> "s1", tabId |-> None]
    /\ invoked = 2
    /\ Len(pending) = 2
    /\ \A i \in 1..2 : /\ pending[i].fn = "clearError"
                       /\ pending[i].arg = Some("s1")
                       /\ pending[i].inv = i
    /\ sessions[1].state = "idle"
    /\ Len(sessions[1].aiTabs) = 2
    /\ sessions[1].aiTabs[1].agentError # None
    /\ sessions[1].aiTabs[2].agentError = None

\* the actions that work on the detection cache or on agent processes, and the
\* error-recovery actions
ProcessActions == {"killAgent", "interruptAgent", "refreshAgents", "getAgentConfig"}
RecoveryActions ==
    {"clearAgentError", "retryAfterError", "startNewSessionAfterError",
     "restartAgentAfterError", "authenticateAfterError"}

\* C23: no step of killAgent, interruptAgent, refreshAgents or getAgentConfig,
\* at the call or when its external call settles, resolved or rejected, changes
\* the session collection or the active session id; no step of clearAgentError,
\* retryAfterError, startNewSessionAfterError, restartAgentAfterError or
\* authenticateAfterError changes availableAgents or agentsDetected.
C23_SessionsAndCacheIndependent ==
    [][ /\ last'.op \in ProcessActions => UNCHANGED <<sessions, activeSessionId>>
        /\ last'.op \in RecoveryActions => UNCHANGED <<availableAgents, agentsDetected>>
      ]_vars

\* after a detection cached two agents, the kill call of killAgent("s1") has
\* failed: s1 is still in its error state and the two agents are still cached
C23_Witness ==
    /\ last.op = "killAgent"
    /\ last.phase = "settle"
    /\ ~last.args.ok
    /\ last.args.call.arg = Some("s1-ai")
    /\ invoked = 2
    /\ sessions[1].state = "error"
    /\ sessions[1].agentError # None
    /\ agentsDetected
    /\ Len(availableAgents) = 2

====
